---- MODULE Spec2Model ----
(***************************************************************************)
(* HeuristicLogix Intelligence Service (src/IntelligenceService/main.py).  *)
(*                                                                         *)
(* The service consumes records from a message bus, asks an annotation     *)
(* model for tags and stores one AIEnrichments row per event key.          *)
(*                                                                         *)
(* Modelled state: the AIEnrichments table (shared by every instance of    *)
(* the service), the two capability flags gemini_model / AsyncSessionLocal,*)
(* and for every running coroutine (two consumer loops, one manual         *)
(* trigger) the record in flight and the await point it is suspended at.   *)
(* A handler is cut at its awaits that touch shared state or the outside:  *)
(*   receive  : pull, dispatch, validation, existence check (SELECT)       *)
(*   annotate : generate_content, json.loads, IntelligenceEnrichment(...)  *)
(*   store    : session.commit() (INSERT)                                  *)
(*                                                                         *)
(* Text that the code inspects (type tags, identifiers, key components) is *)
(* a sequence of one-character strings, so that lower(), substring search  *)
(* and concatenation are computed and not assumed.                         *)
(*                                                                         *)
(* NOTE on the two pydantic classes ExpertDecisionEvent (l.118-122) and    *)
(* HistoricDeliveryEvent (l.186-191): in the source their field            *)
(* annotations start at column 0, i.e. AFTER the class body, which is the  *)
(* docstring alone.  Python parses them as module-level annotations, and   *)
(* __post_init__ (l.147) as a module-level function.  Both classes         *)
(* therefore declare no field: construction accepts and drops every key    *)
(* (pydantic's default extra="ignore"), and reading decision.feedback_id   *)
(* or delivery.ingestion_batch_id raises AttributeError.                   *)
(***************************************************************************)
EXTENDS Integers, Sequences, FiniteSets, TLC

VARIABLES
    gemini_model,       \* l.102-108: TRUE iff GEMINI_API_KEY was set
    AsyncSessionLocal,  \* l.48-82 : TRUE iff SQLSERVER_CONNECTION_STRING was set
    AIEnrichments,      \* the table: sequence of rows, in insertion order
    world,              \* which records and answers the outside delivers (RecordsOf)
    pc,                 \* per coroutine: the await point it is suspended at
    job,                \* per coroutine: the record in flight and what was done for it
    pulled,             \* per coroutine: records (requests) taken so far
    stopRequested       \* per consumer: lifespan exit has cancelled the task

vars == <<gemini_model, AsyncSessionLocal, AIEnrichments, world, pc, job,
          pulled, stopRequested>>

-----------------------------------------------------------------------------
(* Bounds *)

\* records one consumer loop pulls / requests the manual trigger receives
MaxRecords == 2

-----------------------------------------------------------------------------
(* Text *)

Uppers == <<"A","B","C","D","E","F","G","H","I","J","K","L","M",
            "N","O","P","Q","R","S","T","U","V","W","X","Y","Z">>
Lowers == <<"a","b","c","d","e","f","g","h","i","j","k","l","m",
            "n","o","p","q","r","s","t","u","v","w","x","y","z">>

\* the lower-case letter of every upper-case letter
ToLower == [i \in 1..Len(Uppers) |-> Lowers[i]]
UpperIndex == [c \in {Uppers[i] : i \in 1..Len(Uppers)} |->
                 CHOOSE i \in 1..Len(Uppers) : Uppers[i] = c]

\* str.lower() on one character
LowerChar(c) == IF c \in DOMAIN UpperIndex THEN ToLower[UpperIndex[c]] ELSE c

\* str.lower()
Lower(s) == [i \in 1..Len(s) |-> LowerChar(s[i])]

\* Python's  sub in s
Contains(sub, s) ==
    \E i \in 0..(Len(s) - Len(sub)) : SubSeq(s, i + 1, i + Len(sub)) = sub

s_expert    == <<"e","x","p","e","r","t">>
s_decision  == <<"d","e","c","i","s","i","o","n">>
s_telemetry == <<"t","e","l","e","m","e","t","r","y">>
s_true      == <<"t","r","u","e">>
s_false     == <<"f","a","l","s","e">>
\* the literal "HistoricDeliveryIngested" of l.299
HistoricDeliveryIngested ==
    <<"H","i","s","t","o","r","i","c","D","e","l","i","v","e","r","y",
      "I","n","g","e","s","t","e","d">>

-----------------------------------------------------------------------------
(* JSON values and records on the bus *)

\* a JSON value used as a payload: an object with its members, or anything else
Obj(f)   == [isObject |-> TRUE, fields |-> f]
NotAnObj == [isObject |-> FALSE, fields |-> <<>>]
NoFields == Obj(<<>>)

\* the "extensions" member of a CloudEvent as l.294-297 reads it
Ext(isObj, has, isStr, val) ==
    [isObject |-> isObj, has |-> has, isStr |-> isStr, val |-> val]
ExtAbsent == Ext(TRUE, FALSE, TRUE, <<>>)

\* message.topic and message.value (l.264-265).  hasType is  "type" in value;
\* for a value without "type" the payload is the value itself (data).
Rec(topic, isObj, hasType, typeIsStr, type, data, ext) ==
    [topic |-> topic, isObject |-> isObj, hasType |-> hasType,
     typeIsStr |-> typeIsStr, type |-> type, data |-> data, ext |-> ext]
Legacy(topic, data)       == Rec(topic, TRUE, FALSE, TRUE, <<>>, data, ExtAbsent)
CloudEvent(type, data, e) ==
    Rec("expert.decisions.v1", TRUE, TRUE, TRUE, type, data, e)
NoRecord                  == Rec("", TRUE, FALSE, TRUE, <<>>, NoFields, ExtAbsent)

F1 == <<"F","1">>
F2 == <<"F","2">>
v  == <<"x">>

TelemetryData(id) ==
    Obj([event_id |-> id, event_type |-> <<"g","p","s">>, aggregate_id |-> v,
         timestamp_utc |-> v, payload |-> v])
TelemetryNoId ==
    Obj([event_type |-> <<"g","p","s">>, aggregate_id |-> v,
         timestamp_utc |-> v, payload |-> v])
\* the decision event of the spec's scenario 1: current names only
DecisionData(id) ==
    Obj([feedback_id |-> id, conduce_id |-> v, selected_truck_id |-> v,
         primary_reason |-> v, decision_time_seconds |-> v, recorded_at_utc |-> v])
\* a decision event carrying every name the annotations of l.124-145 list
DecisionDataAll(id) ==
    Obj([feedback_id |-> id, order_id |-> v, conduce_id |-> v,
         selected_truck_id |-> v, expert_assigned_truck_id |-> v,
         primary_reason |-> v, decision_time_seconds |-> v, recorded_at_utc |-> v])
\* a decision event without feedback_id
DecisionNoId ==
    Obj([order_id |-> v, conduce_id |-> v, selected_truck_id |-> v,
         expert_assigned_truck_id |-> v, primary_reason |-> v,
         decision_time_seconds |-> v, recorded_at_utc |-> v])
\* a historic delivery without truck_license_plate
HistoricNoPlate(batch, date) ==
    Obj([delivery_date |-> date, client_name |-> v, raw_description |-> v,
         delivery_address |-> v, latitude |-> v, longitude |-> v,
         service_time_minutes |-> v, ingestion_batch_id |-> batch])
HistoricData(batch, plate, date, desc) ==
    Obj([delivery_date |-> date, client_name |-> v, raw_description |-> desc,
         delivery_address |-> v, latitude |-> v, longitude |-> v,
         truck_license_plate |-> plate, service_time_minutes |-> v,
         ingestion_batch_id |-> batch])

-----------------------------------------------------------------------------
(* pydantic models *)

\* the mutant of ExpertDecisionEventFields: the annotations of l.124-145
\* without a default, as fields of the class
ExpertDecisionEventFields_Declared ==
    {"feedback_id", "order_id", "conduce_id", "selected_truck_id",
     "expert_assigned_truck_id", "primary_reason", "decision_time_seconds",
     "recorded_at_utc"}

\* fields the class bodies declare (see the note in the header)
ExpertDecisionEventFields   == {}
TelemetryEventFields        ==
    {"event_id", "event_type", "aggregate_id", "timestamp_utc", "payload"}
HistoricDeliveryEventFields == {}

\* Cls(**event_data): TypeError when event_data is no mapping, ValidationError
\* when a declared field (all are required) is missing; undeclared keys are
\* ignored.  m is the instance: the declared fields with their values.
Construct(fields, data) ==
    IF ~data.isObject \/ ~(fields \subseteq DOMAIN data.fields)
    THEN [ok |-> FALSE, m |-> <<>>]
    ELSE [ok |-> TRUE, m |-> [f \in fields |-> data.fields[f]]]

\* attribute access on an instance raises AttributeError for any other name
HasAttr(m, a) == a \in DOMAIN m
HasAttrs(m, as) == \A a \in as : HasAttr(m, a)

-----------------------------------------------------------------------------
(* The annotation collaborator and the enrichment built from its answer *)

\* what  await asyncio.to_thread(gemini_model.generate_content, prompt)  and
\* json.loads(response.text) can yield:
\*   kind "raise"  : the call (or response.text) raised
\*   kind "text"   : the body is not JSON
\*   kind "array"  : the body is JSON but no object
\*   kind "object" : a JSON object with members obj; bad names the members
\*                   whose value IntelligenceEnrichment rejects (wrong type)
Response(kind, obj, bad) == [kind |-> kind, obj |-> obj, bad |-> bad]
NoResponse == Response("none", <<>>, {})

\* dict.get(key, default)
Get(obj, key, default) == IF key \in DOMAIN obj THEN obj[key] ELSE default

\* l.377-385 / l.441-449: IntelligenceEnrichment(...) of a decision or a
\* telemetry event.  processing_time_ms is wall-clock time and is left out.
IntelligenceEnrichment(event_id, event_type, ai_response) ==
    [event_id             |-> event_id,
     event_type           |-> event_type,
     ai_tags              |-> Get(ai_response, "tags", <<>>),
     ai_confidence_score  |-> Get(ai_response, "confidence_score", 0),
     ai_reasoning         |-> Get(ai_response, "reasoning", <<>>),
     ai_suggested_actions |-> Get(ai_response, "suggested_actions", <<>>)]
NoEnrichment == IntelligenceEnrichment(<<>>, <<>>, <<>>)

\* members of the answer that reach a validated field of IntelligenceEnrichment
ValidatedKeys == {"tags", "confidence_score", "reasoning", "suggested_actions"}

\* l.379: the literal "expert.decision"
s_expert_decision ==
    <<"e","x","p","e","r","t",".","d","e","c","i","s","i","o","n">>

-----------------------------------------------------------------------------
(* The AIEnrichments table *)

RECURSIVE JoinItems(_)
\* the items of a JSON array of strings: "a", "b"
JoinItems(list) ==
    IF list = <<>> THEN <<>>
    ELSE <<"\"">> \o Head(list) \o <<"\"">> \o
         (IF Len(list) > 1 THEN <<",", " ">> ELSE <<>>) \o JoinItems(Tail(list))

\* json.dumps of a list of strings (l.643, l.646)
JsonDumps(list) == <<"[">> \o JoinItems(list) \o <<"]">>

\* l.640-648: the row built from an enrichment
AIEnrichment(enrichment) ==
    [EventId            |-> enrichment.event_id,
     EventType          |-> enrichment.event_type,
     AITags             |-> JsonDumps(enrichment.ai_tags),
     AIConfidenceScore  |-> enrichment.ai_confidence_score,
     AIReasoning        |-> enrichment.ai_reasoning,
     AISuggestedActions |-> JsonDumps(enrichment.ai_suggested_actions)]

\* the mutant of UniqueEventId: the column declared without unique=True
UniqueEventId_Dropped(table, row) == FALSE

\* l.92: EventId = Column(..., unique=True): the INSERT of row is rejected
UniqueEventId(table, row) ==
    \E i \in 1..Len(table) : table[i].EventId = row.EventId

\* rows of the table with this EventId
RowsOf(table, event_id) == {i \in 1..Len(table) : table[i].EventId = event_id}

\* the mutant of check_enrichment_exists: a SELECT that raised is answered True
check_enrichment_exists_FailClosed(table, configured, event_id, dbOk) ==
    configured /\ (~dbOk \/ RowsOf(table, event_id) # {})

\* l.311-332: False when the store is not configured or the SELECT raised
check_enrichment_exists(table, configured, event_id, dbOk) ==
    configured /\ dbOk /\ RowsOf(table, event_id) # {}

\* the mutant of store_enrichment: a commit that raised has left its row
store_enrichment_RowLeftBehind(table, configured, enrichment, dbOk) ==
    LET row == AIEnrichment(enrichment) IN
    IF ~configured THEN [result |-> "not_configured", table |-> table]
    ELSE IF ~dbOk THEN [result |-> "db_error", table |-> Append(table, row)]
    ELSE IF UniqueEventId(table, row)
         THEN [result |-> "unique_violation", table |-> table]
         ELSE [result |-> "stored", table |-> Append(table, row)]

\* l.631-655: the outcome of store_enrichment, which never raises
\*   "not_configured"   l.633-635
\*   "db_error"         the session or the commit raised for another reason
\*   "unique_violation" the commit raised because of the constraint on EventId
\*   "stored"           the row is in the table
store_enrichment(table, configured, enrichment, dbOk) ==
    LET row == AIEnrichment(enrichment) IN
    IF ~configured THEN [result |-> "not_configured", table |-> table]
    ELSE IF ~dbOk THEN [result |-> "db_error", table |-> table]
    ELSE IF UniqueEventId(table, row)
         THEN [result |-> "unique_violation", table |-> table]
         ELSE [result |-> "stored", table |-> Append(table, row)]

\* l.634 / l.653 / l.655: the level store_enrichment logs its outcome at; the
\* except clause of l.654 does not tell a violated constraint from another failure
store_enrichment_log(result) ==
    IF result = "stored" THEN "info"
    ELSE IF result = "not_configured" THEN "warning"
    ELSE "error"

-----------------------------------------------------------------------------
(* The handlers up to their first suspension after the existence check *)

\* How far a handler got before it suspends or returns.
\*   end     : "annotate" (suspended in generate_content) or the branch it ended in
\*             "skip_duplicate"  l.344 / l.409 / l.483
\*             "ai_skipped"      l.395 / l.459 / l.626
\*             "error"           l.397 / l.461 / l.628 (exception caught in the handler)
\*   keyed   : the event id was read / derived;  checked : the SELECT was issued
Begun(handler, end, keyed, key, checked, found, m, is_historic) ==
    [handler |-> handler, end |-> end, keyed |-> keyed, key |-> key,
     checked |-> checked, found |-> found, m |-> m, is_historic |-> is_historic]

\* the mutant of CheckThenPrompt: the result of the existence check is not acted on
CheckThenPrompt_NoSkip(handler, key, m, enabled, promptAttrs, is_historic, table, dbOk) ==
    LET found == check_enrichment_exists(table, AsyncSessionLocal, key, dbOk) IN
    IF ~enabled
    THEN Begun(handler, "ai_skipped", TRUE, key, TRUE, found, m, is_historic)
    ELSE IF ~HasAttrs(m, promptAttrs)
    THEN Begun(handler, "error", TRUE, key, TRUE, found, m, is_historic)
    ELSE Begun(handler, "annotate", TRUE, key, TRUE, found, m, is_historic)

\* the part common to the three handlers: idempotency check, then the
\* capability test and the attribute reads that build the prompt
CheckThenPrompt(handler, key, m, enabled, promptAttrs, is_historic, table, dbOk) ==
    LET found == check_enrichment_exists(table, AsyncSessionLocal, key, dbOk) IN
    IF found
    THEN Begun(handler, "skip_duplicate", TRUE, key, TRUE, TRUE, m, is_historic)
    ELSE IF ~enabled
    THEN Begun(handler, "ai_skipped", TRUE, key, TRUE, FALSE, m, is_historic)
    ELSE IF ~HasAttrs(m, promptAttrs)
    THEN Begun(handler, "error", TRUE, key, TRUE, FALSE, m, is_historic)
    ELSE Begun(handler, "annotate", TRUE, key, TRUE, FALSE, m, is_historic)

\* l.335-365
process_expert_decision(event_data, table, dbOk) ==
    LET c == Construct(ExpertDecisionEventFields, event_data) IN
    IF ~c.ok \/ ~HasAttr(c.m, "feedback_id")
    THEN Begun("decision", "error", FALSE, <<>>, FALSE, FALSE, <<>>, TRUE)
    ELSE CheckThenPrompt("decision", c.m.feedback_id, c.m, gemini_model,
             {"primary_reason", "secondary_reasons", "decision_time_seconds",
              "expert_notes"}, TRUE, table, dbOk)

\* the mutant of process_telemetry_event: the payload is used as it came, a
\* missing event_id read as the empty string
process_telemetry_event_Unvalidated(event_data, table, dbOk) ==
    IF ~event_data.isObject
    THEN Begun("telemetry", "error", FALSE, <<>>, FALSE, FALSE, <<>>, TRUE)
    ELSE CheckThenPrompt("telemetry", Get(event_data.fields, "event_id", <<>>),
             event_data.fields, gemini_model,
             {"event_type", "aggregate_id", "payload"}, TRUE, table, dbOk)

\* l.400-429
process_telemetry_event(event_data, table, dbOk) ==
    LET c == Construct(TelemetryEventFields, event_data) IN
    IF ~c.ok \/ ~HasAttr(c.m, "event_id")
    THEN Begun("telemetry", "error", FALSE, <<>>, FALSE, FALSE, <<>>, TRUE)
    ELSE CheckThenPrompt("telemetry", c.m.event_id, c.m, gemini_model,
             {"event_type", "aggregate_id", "payload"}, TRUE, table, dbOk)

\* the mutant of HistoricEventId: the components joined without separator
HistoricEventId_NoSeparator(batch, plate, date) == batch \o plate \o date

\* l.479: f"{ingestion_batch_id}_{truck_license_plate}_{delivery_date}"
HistoricEventId(batch, plate, date) ==
    batch \o <<"_">> \o plate \o <<"_">> \o date

\* l.464-553.  l.489-491 read quantity, raw_unit, taxonomy_id,
\* is_weight_calculated (and total_weight_kg) before the capability test.
process_historic_delivery(event_data, is_historic, table, dbOk) ==
    LET c == Construct(HistoricDeliveryEventFields, event_data) IN
    IF ~c.ok \/ ~HasAttrs(c.m, {"ingestion_batch_id", "truck_license_plate",
                                "delivery_date"})
    THEN Begun("historic", "error", FALSE, <<>>, FALSE, FALSE, <<>>, is_historic)
    ELSE LET key == HistoricEventId(c.m.ingestion_batch_id,
                                    c.m.truck_license_plate, c.m.delivery_date)
             r == CheckThenPrompt("historic", key, c.m,
                      gemini_model /\ is_historic,
                      {"raw_description", "client_name", "delivery_address",
                       "service_time_minutes", "expert_notes", "override_reason",
                       "is_taxonomy_verified"}, is_historic, table, dbOk)
         IN IF r.end # "skip_duplicate"
               /\ ~HasAttrs(c.m, {"quantity", "raw_unit", "taxonomy_id",
                                  "is_weight_calculated"})
            THEN Begun("historic", "error", TRUE, key, TRUE, FALSE, c.m, is_historic)
            ELSE r

\* no handler was entered
NotRouted(end) == Begun("none", end, FALSE, <<>>, FALSE, FALSE, <<>>, TRUE)

\* the mutant of IsHistoricTag: the tag compared case-insensitively
IsHistoricTag_AnyCase(event_type) ==
    Lower(event_type) = Lower(HistoricDeliveryIngested)

\* l.299: event_type == "HistoricDeliveryIngested"
IsHistoricTag(event_type) == event_type = HistoricDeliveryIngested

\* l.301: "expert" in event_type.lower() or "decision" in event_type.lower()
IsDecisionTag(event_type) ==
    Contains(s_expert, Lower(event_type)) \/ Contains(s_decision, Lower(event_type))

\* the mutant of IsTelemetryTag: the tag searched without lower()
IsTelemetryTag_CaseSensitive(event_type) == Contains(s_telemetry, event_type)

\* l.303: "telemetry" in event_type.lower()
IsTelemetryTag(event_type) == Contains(s_telemetry, Lower(event_type))

\* l.290-306.  "loop_error": an exception left process_cloud_event and was
\* caught at l.282: extensions is no mapping or is_historic is no string
\* (l.297), or the type tag is no string (l.301).
process_cloud_event(cloud_event, table, dbOk) ==
    LET event_type == cloud_event.type
        event_data == cloud_event.data
        extensions == cloud_event.ext
        is_historic ==
            Lower(IF extensions.has THEN extensions.val ELSE s_false) = s_true
    IN  IF ~extensions.isObject \/ (extensions.has /\ ~extensions.isStr)
        THEN NotRouted("loop_error")
        ELSE IF cloud_event.typeIsStr /\ IsHistoricTag(event_type)
        THEN process_historic_delivery(event_data, is_historic, table, dbOk)
        ELSE IF ~cloud_event.typeIsStr
        THEN NotRouted("loop_error")
        ELSE IF IsDecisionTag(event_type)
        THEN process_expert_decision(event_data, table, dbOk)
        ELSE IF IsTelemetryTag(event_type)
        THEN process_telemetry_event(event_data, table, dbOk)
        ELSE NotRouted("unknown_type")

\* the mutant of Dispatch: a record of an unknown topic is taken as telemetry
Dispatch_DefaultTelemetry(message, table, dbOk) ==
    IF ~message.isObject THEN NotRouted("fatal")
    ELSE IF message.hasType THEN process_cloud_event(message, table, dbOk)
    ELSE IF message.topic = "expert.decisions.v1"
    THEN process_expert_decision(message.data, table, dbOk)
    ELSE IF message.topic = "historic.deliveries.v1"
    THEN process_historic_delivery(message.data, TRUE, table, dbOk)
    ELSE process_telemetry_event(message.data, table, dbOk)

\* l.263-287, one record: "fatal" when message.value has no .get (l.267 is
\* outside the inner try, so l.286 ends the loop); "unknown_topic" is l.281
Dispatch(message, table, dbOk) ==
    IF ~message.isObject THEN NotRouted("fatal")
    ELSE IF message.hasType THEN process_cloud_event(message, table, dbOk)
    ELSE IF message.topic = "expert.decisions.v1"
    THEN process_expert_decision(message.data, table, dbOk)
    ELSE IF message.topic = "heuristic.telemetry.v1"
    THEN process_telemetry_event(message.data, table, dbOk)
    ELSE IF message.topic = "historic.deliveries.v1"
    THEN process_historic_delivery(message.data, TRUE, table, dbOk)
    ELSE NotRouted("unknown_topic")

-----------------------------------------------------------------------------
(* The handlers after the annotation call returned *)

Min(a, b) == IF a < b THEN a ELSE b

\* list.insert(i, x): an index past the end appends
Insert(list, i, x) ==
    LET k == Min(i, Len(list)) IN
    SubSeq(list, 1, k) \o <<x>> \o SubSeq(list, k + 1, Len(list))

\* Python truth of an optional value: absent, empty and zero are false
Truthy(m, a) == HasAttr(m, a) /\ m[a] # <<>> /\ m[a] # <<"0">>

\* l.572-577: the tags of a historic delivery
HistoricTags(delivery, patterns) ==
    LET p1 == Insert(patterns, 0, <<"PRODUCT:">> \o delivery.raw_description)
        p2 == IF Truthy(delivery, "quantity") /\ Truthy(delivery, "raw_unit")
              THEN Insert(p1, 1, <<"UNIT:">> \o delivery.raw_unit) ELSE p1
    IN  IF HasAttr(delivery, "taxonomy_id") /\ delivery.taxonomy_id # <<>>
        THEN Insert(p2, 2, <<"TAXONOMY:">> \o
                 (IF Truthy(delivery, "is_taxonomy_verified")
                  THEN <<"VERIFIED">> ELSE <<"PENDING">>))
        ELSE p2

\* l.579-615: the enrichment of a historic delivery (full_reasoning is kept as
\* the product, the category and the insights it is formatted from)
HistoricEnrichment(event_id, delivery, ai_response) ==
    [event_id             |-> event_id,
     event_type           |-> <<"historic_delivery_unit_aware">>,
     ai_tags              |-> HistoricTags(delivery, Get(ai_response, "patterns", <<>>)),
     ai_confidence_score  |-> Get(ai_response, "capacity_score", 50),
     ai_reasoning         |-> <<"Product: ">> \o delivery.raw_description
                              \o <<"Category: ">>
                              \o Get(ai_response, "product_category", <<"OTHER">>)
                              \o <<"Insights: ">> \o Get(ai_response, "insights", <<>>),
     ai_suggested_actions |-> Get(ai_response, "training_recommendations", <<>>)]

\* members of a historic answer whose wrong type raises (l.573, l.607-615)
HistoricValidatedKeys == {"patterns", "capacity_score", "training_recommendations"}

\* the mutant of Annotated: an answer that is no JSON is taken as an empty object
Annotated_Lenient(j, response) ==
    IF response.kind \in {"raise", "array"}
       \/ (response.kind = "object" /\ response.bad \cap ValidatedKeys # {})
    THEN [ok |-> FALSE, enrichment |-> NoEnrichment]
    ELSE [ok |-> TRUE,
          enrichment |-> IntelligenceEnrichment(j.key,
              IF j.handler = "decision" THEN s_expert_decision ELSE j.m.event_type,
              response.obj)]

\* l.367-385 / l.431-449 / l.561-615: from the answer to the enrichment handed
\* to store_enrichment; ~ok is an exception caught at l.396 / l.460 / l.627
Annotated(j, response) ==
    IF response.kind # "object"
    THEN [ok |-> FALSE, enrichment |-> NoEnrichment]
    ELSE IF j.handler = "historic"
    THEN IF response.bad \cap HistoricValidatedKeys # {}
         THEN [ok |-> FALSE, enrichment |-> NoEnrichment]
         ELSE [ok |-> TRUE,
               enrichment |-> HistoricEnrichment(j.key, j.m, response.obj)]
    ELSE IF response.bad \cap ValidatedKeys # {}
         THEN [ok |-> FALSE, enrichment |-> NoEnrichment]
         ELSE [ok |-> TRUE,
               enrichment |-> IntelligenceEnrichment(j.key,
                   IF j.handler = "decision" THEN s_expert_decision
                   ELSE j.m.event_type,
                   response.obj)]

-----------------------------------------------------------------------------
(* What the outside delivers *)

s_Telemetry == <<"T","e","l","e","m","e","t","r","y">>
s_TELEMETRY == <<"T","E","L","E","M","E","T","R","Y">>
s_Expert    == <<"E","x","p","e","r","t">>
s_DECISION  == <<"D","E","C","I","S","I","O","N">>
s_v1        == <<".","v","1">>
s_TRUE      == <<"T","R","U","E">>

\* pieces the type tags are made of
TagPieces ==
    {HistoricDeliveryIngested, s_Telemetry, s_TELEMETRY, s_Expert, s_DECISION, s_v1}

\* every concatenation of at most two pieces, and the historic tag in lower case
Tags ==
    {a \o b : a \in TagPieces \cup {<<>>}, b \in TagPieces \cup {<<>>}}
    \cup {Lower(HistoricDeliveryIngested)}

\* extensions: absent, is_historic "true" / "TRUE" / "false", is_historic a
\* JSON boolean, extensions no object
Extensions ==
    {ExtAbsent, Ext(TRUE, TRUE, TRUE, s_true), Ext(TRUE, TRUE, TRUE, s_TRUE),
     Ext(TRUE, TRUE, TRUE, s_false), Ext(TRUE, TRUE, FALSE, <<>>),
     Ext(FALSE, FALSE, TRUE, <<>>)}

B1 == <<"B","1">>
XYZ1 == <<"X","Y","Z","-","1">>
Date1 == <<"2","0","2","4","-","0","2","-","0","1">>

Historic1 == HistoricData(B1, XYZ1, Date1, <<"c","e","m","e","n","t">>)

\* answers of the annotation collaborator
FullAnswer ==
    [tags |-> << <<"q","u","i","c","k">> >>, confidence_score |-> 80,
     reasoning |-> <<"w","h","y">>, suggested_actions |-> << <<"r","e","t","r","a","i","n">> >>]
Responses ==
    {Response("raise", <<>>, {}), Response("text", <<>>, {}),
     Response("array", <<>>, {}), Response("object", <<>>, {}),
     Response("object", FullAnswer, {}),
     Response("object", FullAnswer, {"tags"}),
     Response("object", [reasoning |-> <<"w","h","y">>], {})}

\* records of every kind, one of each: the world of Spec
CoreRecords ==
    {Legacy("heuristic.telemetry.v1", TelemetryData(F1)),
     Legacy("expert.decisions.v1", DecisionData(F1)),
     Legacy("historic.deliveries.v1", Historic1),
     Rec("heuristic.telemetry.v1", FALSE, FALSE, TRUE, <<>>, NotAnObj, ExtAbsent)}
CoreResponses ==
    {Response("text", <<>>, {}), Response("object", <<>>, {}),
     Response("object", FullAnswer, {})}

\* CloudEvents with every tag and every extensions block, and records without
\* a type tag on every topic: the world of SpecStream
StreamRecords ==
    {CloudEvent(t, TelemetryData(F1), ExtAbsent) : t \in Tags}
    \cup {CloudEvent(t, TelemetryData(F1), e) :
            t \in {s_TELEMETRY, HistoricDeliveryIngested, s_v1}, e \in Extensions}
    \cup {CloudEvent(t, d, ExtAbsent) :
            t \in {s_Telemetry, s_Expert, HistoricDeliveryIngested},
            d \in {DecisionDataAll(F1), Historic1, TelemetryNoId, NotAnObj}}
    \cup {Rec("expert.decisions.v1", TRUE, TRUE, FALSE, <<>>, TelemetryData(F1),
              ExtAbsent)}
    \cup {Legacy(t, d) :
            t \in {"expert.decisions.v1", "heuristic.telemetry.v1",
                   "historic.deliveries.v1", "orders.v1"},
            d \in {TelemetryData(F2), DecisionDataAll(F2)}}
    \cup {Legacy("expert.decisions.v1", DecisionData(F1)),
          Legacy("historic.deliveries.v1", Historic1),
          Legacy("heuristic.telemetry.v1", TelemetryNoId),
          Legacy("expert.decisions.v1", DecisionNoId),
          Legacy("historic.deliveries.v1", HistoricNoPlate(B1, Date1)),
          Rec("heuristic.telemetry.v1", FALSE, FALSE, TRUE, <<>>, NotAnObj, ExtAbsent)}

Bodies == {DecisionData(F1), DecisionDataAll(F1), NotAnObj}

\* a delivery as l.572-577 read it: raw_description, quantity, raw_unit,
\* taxonomy_id (None is the empty value) and is_taxonomy_verified (False is
\* the empty value)
Delivery(quantity, raw_unit, taxonomy_id, is_taxonomy_verified) ==
    [raw_description |-> <<"c","e","m","e","n","t">>, quantity |-> quantity,
     raw_unit |-> raw_unit, taxonomy_id |-> taxonomy_id,
     is_taxonomy_verified |-> is_taxonomy_verified]
Deliveries ==
    {Delivery(q, u, t, ver) :
        q \in {<<>>, <<"0">>, <<"2">>}, u \in {<<>>, <<"B","A","G">>},
        t \in {<<>>, <<"T","1">>}, ver \in {<<>>, <<"T","r","u","e">>}}

\* the three attributes l.479 reads, with and without "_" in their values
KeyParts(batch, plate, date) ==
    [ingestion_batch_id |-> batch, truck_license_plate |-> plate,
     delivery_date |-> date]
KeyTriples ==
    {KeyParts(b, pl, d) :
        b  \in {<<"B">>, <<"B","1">>, <<"B","_","1">>},
        pl \in {<<"X">>, <<"1","X">>, <<"1","_","X">>},
        d  \in {<<"D","1">>, <<"D","2">>}}

\* the "patterns" member of an answer
P1 == <<"h","e","a","v","y">>
P2 == <<"b","u","l","k">>
P3 == <<"s","l","o","w">>
PatternLists == {<<>>, <<P1>>, <<P1, P2>>, <<P2, P1>>, <<P1, P2, P3>>}

\* the records, answers and request bodies a world can deliver
RecordsOf(name)   == IF name = "core" THEN CoreRecords ELSE StreamRecords
ResponsesOf(name) == IF name = "core" THEN CoreResponses ELSE Responses

-----------------------------------------------------------------------------
(* Coroutines *)

\* two instances of the consumer loop (one per service instance, same table)
Consumers == {"c1", "c2"}
\* the manual trigger POST /analyze
Api == "api"
Procs == Consumers \cup {Api}

\* What one coroutine did for the record in flight.
\*   end      : "running", the branch the handler ended in (see Begun), or
\*              "enriched"      l.390 / l.454 / l.620, after store_enrichment returned
\*              "unknown_type"  l.306     "unknown_topic" l.281
\*              "loop_error"    l.283     "fatal"         l.287
\*              "cancelled"     l.285     "rejected"      the request never reached
\*                                                        process_expert_decision
\*   faults   : the collaborators' failures met: "lookup" (the SELECT raised),
\*              "annotation" (the call raised), "answer" (the answer is no
\*              object of the expected types), "insert" (the commit raised
\*              for another reason than the constraint on EventId)
\*   annCalls : calls of generate_content;  inserts : commits attempted
\*   stored   : the result of store_enrichment, "none" before
\*   http     : the status the manual trigger answered, 0 for none
\*   repeat   : the record was resubmitted (see Resubmitted)
\*   redelivery : the record is redelivered after a failure (see Redelivered)
NewJob(message, repeat, b, faults, http) ==
    [rec |-> message, repeat |-> repeat, handler |-> b.handler, keyed |-> b.keyed, key |-> b.key,
     checked |-> b.checked, found |-> b.found, m |-> b.m,
     is_historic |-> b.is_historic,
     end |-> IF b.end = "annotate" THEN "running" ELSE b.end,
     faults |-> faults, annCalls |-> 0, response |-> NoResponse,
     enrichment |-> NoEnrichment, inserts |-> 0, stored |-> "none", http |-> http,
     redelivery |-> FALSE]

NoJob == NewJob(NoRecord, FALSE, NotRouted("none"), {}, 0)

\* message is the record the coroutine processed just before, to its end and
\* with no failure of a collaborator
Resubmitted(j, message) ==
    message = j.rec /\ j.faults = {} /\ j.end \notin {"running", "cancelled"}

\* message is the record the coroutine processed just before, and that
\* processing called the annotation and failed there or in the insert, with
\* nothing stored
Redelivered(j, message) ==
    /\ message = j.rec
    /\ j.end \notin {"running", "cancelled"}
    /\ j.faults # {} /\ j.faults \subseteq {"annotation", "answer", "insert"}
    /\ j.stored # "stored"

\* the lookup failed (and there was a lookup to fail)
LookupFault(b, dbOk) ==
    IF b.checked /\ AsyncSessionLocal /\ ~dbOk THEN {"lookup"} ELSE {}

\* l.700-707: the status of the manual trigger once process_expert_decision
\* returned: l.707 reads decision.feedback_id
AnalyzeStatus(decision) == IF HasAttr(decision, "feedback_id") THEN 200 ELSE 500

\* the status a finished job answers with (consumers answer nothing)
HttpOf(p, j) ==
    IF p = Api
    THEN AnalyzeStatus(Construct(ExpertDecisionEventFields, j.rec.data).m)
    ELSE 0

\* the mutant of consume_kafka_messages: the handler is started as a task of
\* its own and the loop pulls on without awaiting it
consume_kafka_messages_NotAwaited(p) ==
    /\ p \in Consumers
    /\ pc[p] \in {"ready", "annotate", "store"}
    /\ pulled[p] < MaxRecords
    /\ \E message \in RecordsOf(world), dbOk \in BOOLEAN :
         LET b == Dispatch(message, AIEnrichments, dbOk) IN
         /\ job' = [job EXCEPT ![p] = NewJob(message, Resubmitted(job[p], message), b,
                                        LookupFault(b, dbOk), 0)]
         /\ pc' = [pc EXCEPT ![p] =
                     IF b.end = "annotate" THEN "annotate"
                     ELSE IF b.end = "fatal" THEN "ended" ELSE "ready"]
    /\ pulled' = [pulled EXCEPT ![p] = @ + 1]
    /\ UNCHANGED <<gemini_model, AsyncSessionLocal, AIEnrichments, world,
                   stopRequested>>

\* l.263-283: the loop takes the next record and runs its handler up to the
\* first suspension after the existence check
consume_kafka_messages(p) ==
    /\ p \in Consumers
    /\ pc[p] = "ready"
    /\ pulled[p] < MaxRecords
    /\ \E message \in RecordsOf(world), dbOk \in BOOLEAN :
         LET b == Dispatch(message, AIEnrichments, dbOk) IN
         /\ job' = [job EXCEPT ![p] =
                [NewJob(message, Resubmitted(job[p], message), b,
                        LookupFault(b, dbOk), 0)
                 EXCEPT !.redelivery = Redelivered(job[p], message)]]
         /\ pc' = [pc EXCEPT ![p] =
                     IF b.end = "annotate" THEN "annotate"
                     ELSE IF b.end = "fatal" THEN "ended" ELSE "ready"]
    /\ pulled' = [pulled EXCEPT ![p] = @ + 1]
    /\ UNCHANGED <<gemini_model, AsyncSessionLocal, AIEnrichments, world,
                   stopRequested>>

\* l.700-707: POST /analyze.  422: the body is no ExpertDecisionEvent;
\* 503: l.703-704
analyze_decision(p) ==
    /\ p = Api
    /\ pc[p] = "ready"
    /\ pulled[p] < MaxRecords
    /\ \E body \in Bodies, dbOk \in BOOLEAN :
         LET decision == Construct(ExpertDecisionEventFields, body)
             message  == Legacy("POST /analyze", body)
             b        == process_expert_decision(Obj(decision.m), AIEnrichments, dbOk)
         IN  IF ~decision.ok
             THEN /\ job' = [job EXCEPT ![p] =
                               NewJob(message, Resubmitted(job[p], message),
                                      NotRouted("rejected"), {}, 422)]
                  /\ pc' = pc
             ELSE IF ~gemini_model
             THEN /\ job' = [job EXCEPT ![p] =
                               NewJob(message, Resubmitted(job[p], message),
                                      NotRouted("rejected"), {}, 503)]
                  /\ pc' = pc
             ELSE /\ job' = [job EXCEPT ![p] =
                               NewJob(message, Resubmitted(job[p], message), b,
                                      LookupFault(b, dbOk),
                                      IF b.end = "annotate" THEN 0
                                      ELSE AnalyzeStatus(decision.m))]
                  /\ pc' = [pc EXCEPT ![p] =
                              IF b.end = "annotate" THEN "annotate" ELSE "ready"]
    /\ pulled' = [pulled EXCEPT ![p] = @ + 1]
    /\ UNCHANGED <<gemini_model, AsyncSessionLocal, AIEnrichments, world,
                   stopRequested>>

\* l.367-385 / l.431-449 / l.561-615: generate_content returns (or raises) and
\* the handler runs up to the commit inside store_enrichment
generate_content(p) ==
    /\ pc[p] = "annotate"
    /\ \E response \in ResponsesOf(world) :
         LET a == Annotated(job[p], response) IN
         /\ job' = [job EXCEPT ![p] =
                [@ EXCEPT !.annCalls = @ + 1,
                          !.response = response,
                          !.faults = IF response.kind = "raise"
                                     THEN @ \cup {"annotation"}
                                     ELSE IF ~a.ok THEN @ \cup {"answer"} ELSE @,
                          !.enrichment = a.enrichment,
                          !.end = IF a.ok THEN "running" ELSE "error",
                          !.http = IF a.ok THEN 0 ELSE HttpOf(p, job[p])]]
         /\ pc' = [pc EXCEPT ![p] = IF a.ok THEN "store" ELSE "ready"]
    /\ UNCHANGED <<gemini_model, AsyncSessionLocal, AIEnrichments, world, pulled,
                   stopRequested>>

\* l.631-655 and l.390 / l.454 / l.620: store_enrichment, then the handler
\* logs the event as enriched and returns
session_commit(p) ==
    /\ pc[p] = "store"
    /\ \E dbOk \in BOOLEAN :
         LET r == store_enrichment(AIEnrichments, AsyncSessionLocal,
                                   job[p].enrichment, dbOk) IN
         /\ (~AsyncSessionLocal => dbOk)
         /\ AIEnrichments' = r.table
         /\ job' = [job EXCEPT ![p] =
                [@ EXCEPT !.inserts = IF AsyncSessionLocal THEN @ + 1 ELSE @,
                          !.stored = r.result,
                          !.faults = IF r.result = "db_error"
                                     THEN @ \cup {"insert"} ELSE @,
                          !.end = "enriched",
                          !.http = HttpOf(p, job[p])]]
    /\ pc' = [pc EXCEPT ![p] = "ready"]
    /\ UNCHANGED <<gemini_model, AsyncSessionLocal, world, pulled,
                   stopRequested>>

\* l.245-248 and l.284-285: consumer_task.cancel() raises CancelledError at the
\* await the task is suspended at; it is no Exception, so only l.284 catches
\* it.  Cancelled inside the commit, the INSERT may or may not have reached
\* the table.
lifespan_exit(p) ==
    /\ p \in Consumers
    /\ ~stopRequested[p]
    /\ stopRequested' = [stopRequested EXCEPT ![p] = TRUE]
    /\ pc' = [pc EXCEPT ![p] = "ended"]
    /\ \E landed \in BOOLEAN :
         LET r == store_enrichment(AIEnrichments, AsyncSessionLocal,
                                   job[p].enrichment, landed)
             inFlight == pc[p] \in {"annotate", "store"}
         IN  /\ (landed => pc[p] = "store" /\ r.result = "stored")
             /\ AIEnrichments' = IF landed THEN r.table ELSE AIEnrichments
             /\ job' = [job EXCEPT ![p] =
                    [@ EXCEPT !.end = IF inFlight THEN "cancelled" ELSE @,
                              !.inserts = IF landed THEN @ + 1 ELSE @,
                              !.stored = IF landed THEN "stored" ELSE @]]
    /\ UNCHANGED <<gemini_model, AsyncSessionLocal, world, pulled>>

\* l.572-577 alone, as a function of the delivery and of the returned
\* patterns: the tags handed to IntelligenceEnrichment at l.610
historic_tags(p) ==
    /\ pc[p] = "tags"
    /\ \E patterns \in PatternLists :
         job' = [job EXCEPT ![p] =
                [@ EXCEPT !.response = Response("object", [patterns |-> patterns], {}),
                          !.enrichment =
                              [@ EXCEPT !.ai_tags = HistoricTags(job[p].m, patterns)]]]
    /\ pc' = [pc EXCEPT ![p] = "tagged"]
    /\ UNCHANGED <<gemini_model, AsyncSessionLocal, AIEnrichments, world, pulled,
                   stopRequested>>

\* l.479 alone, as a function of the three attributes it reads
historic_event_id(p) ==
    /\ pc[p] = "key"
    /\ job' = [job EXCEPT ![p] =
           [@ EXCEPT !.keyed = TRUE,
                     !.key = HistoricEventId(job[p].m.ingestion_batch_id,
                                             job[p].m.truck_license_plate,
                                             job[p].m.delivery_date)]]
    /\ pc' = [pc EXCEPT ![p] = "keyed"]
    /\ UNCHANGED <<gemini_model, AsyncSessionLocal, AIEnrichments, world, pulled,
                   stopRequested>>

-----------------------------------------------------------------------------
(* Specifications *)

InitWith(name, running) ==
    /\ gemini_model \in BOOLEAN
    /\ AsyncSessionLocal \in BOOLEAN
    /\ AIEnrichments = <<>>
    /\ world = name
    /\ pc = [p \in Procs |-> IF p \in running THEN "ready" ELSE "ended"]
    /\ job = [p \in Procs |-> NoJob]
    /\ pulled = [p \in Procs |-> 0]
    /\ stopRequested = [p \in Procs |-> p \notin running]

\* two instances of the service on the same topics and the same table
Init == InitWith("core", Consumers)

\* one instance of the service on a stream of records of every shape
InitStream == InitWith("stream", {"c1"})

\* one instance of the service and its manual trigger
InitApi == InitWith("core", {"c1", Api})

Next ==
    \E p \in Consumers :
        \/ consume_kafka_messages(p)
        \/ generate_content(p)
        \/ session_commit(p)
        \/ lifespan_exit(p)

\* the inputs of l.572-577: every delivery of Deliveries
InitTags ==
    /\ gemini_model = TRUE
    /\ AsyncSessionLocal = TRUE
    /\ AIEnrichments = <<>>
    /\ world = "core"
    /\ pc = [p \in Procs |-> IF p = "c1" THEN "tags" ELSE "ended"]
    /\ \E delivery \in Deliveries :
         job = [p \in Procs |-> IF p = "c1" THEN [NoJob EXCEPT !.m = delivery]
                                ELSE NoJob]
    /\ pulled = [p \in Procs |-> 0]
    /\ stopRequested = [p \in Procs |-> p # "c1"]

NextTags == historic_tags("c1")

\* the inputs of l.479: two deliveries, every pair of KeyTriples
InitKeys ==
    /\ gemini_model = TRUE
    /\ AsyncSessionLocal = TRUE
    /\ AIEnrichments = <<>>
    /\ world = "core"
    /\ pc = [p \in Procs |-> IF p \in Consumers THEN "key" ELSE "ended"]
    /\ \E d1 \in KeyTriples, d2 \in KeyTriples :
         job = [p \in Procs |-> IF p = "c1" THEN [NoJob EXCEPT !.m = d1]
                                ELSE IF p = "c2" THEN [NoJob EXCEPT !.m = d2]
                                ELSE NoJob]
    /\ pulled = [p \in Procs |-> 0]
    /\ stopRequested = [p \in Procs |-> p \notin Consumers]

NextKeys == \E p \in Consumers : historic_event_id(p)

NextApi ==
    \E p \in {"c1", Api} :
        \/ consume_kafka_messages(p)
        \/ analyze_decision(p)
        \/ generate_content(p)
        \/ session_commit(p)
        \/ lifespan_exit(p)

Spec == Init /\ [][Next]_vars

SpecStream == InitStream /\ [][Next]_vars

SpecApi == InitApi /\ [][NextApi]_vars

SpecTags == InitTags /\ [][NextTags]_vars

SpecKeys == InitKeys /\ [][NextKeys]_vars

TypeOK ==
    /\ gemini_model \in BOOLEAN
    /\ AsyncSessionLocal \in BOOLEAN
    /\ \A p \in Procs : pc[p] \in {"ready", "annotate", "store", "ended", "tags", "tagged",
                                   "key", "keyed"}
    /\ \A p \in Procs : pulled[p] \in 0..MaxRecords

-----------------------------------------------------------------------------
(* Vocabulary of the properties *)

\* rows of the table with this key
Count(key) == Cardinality(RowsOf(AIEnrichments, key))

\* the processing of the record in flight is over
Done(j) == j.end \notin {"none", "running", "cancelled"}

\* both capabilities are configured
Capable == gemini_model /\ AsyncSessionLocal

\* a record without type tag on the decision / telemetry / historic channel
\* that carries the attributes its key is made of
IsDecisionRecord(r) ==
    /\ r.isObject /\ ~r.hasType /\ r.topic = "expert.decisions.v1"
    /\ r.data.isObject /\ "feedback_id" \in DOMAIN r.data.fields
IsTelemetryRecord(r) ==
    /\ r.isObject /\ ~r.hasType /\ r.topic = "heuristic.telemetry.v1"
    /\ r.data.isObject /\ TelemetryEventFields \subseteq DOMAIN r.data.fields
IsHistoricRecord(r) ==
    /\ r.isObject /\ ~r.hasType /\ r.topic = "historic.deliveries.v1"
    /\ r.data.isObject
    /\ {"ingestion_batch_id", "truck_license_plate", "delivery_date"}
           \subseteq DOMAIN r.data.fields

\* the natural identifier of a decision or telemetry record
NaturalId(r) ==
    IF IsDecisionRecord(r) THEN r.data.fields.feedback_id ELSE r.data.fields.event_id

\* the CloudEvent's extensions block is one l.297 can read
ExtensionsReadable(r) == r.ext.isObject /\ (r.ext.has => r.ext.isStr)

-----------------------------------------------------------------------------
(* C1 *)

\* C1: a decision or telemetry record with its natural identifier, processed
\* twice in sequence with both capabilities configured and no failure of a
\* collaborator, leaves exactly one row for the identifier, and the second
\* processing ends as a duplicate skip without an insert.
C1_ResubmittedOnce ==
    \A p \in Consumers :
        LET j == job[p] IN
        (/\ Capable /\ Done(j) /\ j.repeat /\ j.faults = {}
         /\ (IsDecisionRecord(j.rec) \/ IsTelemetryRecord(j.rec)))
        => (/\ Count(NaturalId(j.rec)) = 1
            /\ j.end = "skip_duplicate"
            /\ j.inserts = 0)

-----------------------------------------------------------------------------
(* C2 *)

\* C2: whatever the interleaving of the processings, the table never holds
\* two rows with the same EventId.
C2_AtMostOneRowPerKey ==
    \A i, k \in 1..Len(AIEnrichments) :
        AIEnrichments[i].EventId = AIEnrichments[k].EventId => i = k

\* two instances passed the existence check for the same key and both called
\* the annotation; one inserted, the other's insert was rejected
C2_Witness ==
    /\ job["c1"].key = job["c2"].key
    /\ job["c1"].annCalls = 1 /\ job["c2"].annCalls = 1
    /\ job["c1"].stored = "stored" /\ job["c2"].stored = "unique_violation"
    /\ Count(job["c1"].key) = 1

-----------------------------------------------------------------------------
(* C3 *)

\* C3: when the existence check finds the key, the processing ends as a
\* duplicate skip with no call of the annotation and no insert attempted, and
\* the step that finds it leaves the table as it was.
C3_FoundMeansUntouched ==
    /\ [](\A p \in Procs :
            job[p].found =>
                /\ job[p].end = "skip_duplicate"
                /\ job[p].annCalls = 0
                /\ job[p].inserts = 0)
    /\ [][\A p \in Procs :
            (job'[p].found /\ job'[p] # job[p]) => AIEnrichments' = AIEnrichments]_vars

\* a telemetry record was skipped because its row is in the table
C3_Witness ==
    \E p \in Consumers :
        /\ job[p].found /\ job[p].end = "skip_duplicate"
        /\ job[p].handler = "telemetry"
        /\ Count(job[p].key) = 1

-----------------------------------------------------------------------------
(* C4 *)

\* C4: the decision record of scenario 1 (current field names only) on the
\* decision channel, with both capabilities configured, no failure of a
\* collaborator and no row for F1 but the one this processing inserts, has the
\* annotation called exactly once and exactly one row stored under key F1.
C4_LegacyDecisionPersisted ==
    \A p \in Consumers :
        LET j == job[p] IN
        (/\ Capable /\ Done(j) /\ j.faults = {}
         /\ j.rec = Legacy("expert.decisions.v1", DecisionData(F1))
         /\ (Count(F1) = 0 \/ j.stored = "stored"))
        => (/\ j.annCalls = 1
            /\ j.stored = "stored"
            /\ j.key = F1
            /\ Count(F1) = 1)

-----------------------------------------------------------------------------
(* C5 *)

\* C5: for a historic record the key is batch id, plate and date joined by
\* "_" in that order, whatever the other attributes are, and the record
\* resubmitted after it was persisted is skipped as a duplicate.
C5_HistoricKeyJoined ==
    \A p \in Consumers :
        LET j == job[p]
            f == j.rec.data.fields
        IN  (Done(j) /\ IsHistoricRecord(j.rec))
            => (/\ j.keyed
                /\ j.key = HistoricEventId(f.ingestion_batch_id,
                                           f.truck_license_plate, f.delivery_date)
                /\ (Capable /\ j.repeat /\ j.faults = {}
                        => j.end = "skip_duplicate"))

-----------------------------------------------------------------------------
(* C6 *)

\* C6 as stated: every CloudEvent whose type tag contains "telemetry", in any
\* case and with any characters around it, is handled by process_telemetry_event.
C6_TelemetryTagAlwaysTelemetry ==
    \A p \in Consumers :
        LET j == job[p] IN
        (/\ j.end # "none" /\ j.rec.isObject /\ j.rec.hasType /\ j.rec.typeIsStr
         /\ Contains(s_telemetry, Lower(j.rec.type)))
        => j.handler = "telemetry"

\* C6 amended: a CloudEvent whose type tag contains "telemetry" (in any case,
\* with any characters around it) and contains neither "expert" nor
\* "decision", and whose extensions block is readable, is handled by
\* process_telemetry_event.
C6_TelemetryTagUnlessDecision ==
    \A p \in Consumers :
        LET j == job[p] IN
        (/\ j.end # "none" /\ j.rec.isObject /\ j.rec.hasType /\ j.rec.typeIsStr
         /\ Contains(s_telemetry, Lower(j.rec.type))
         /\ ~Contains(s_expert, Lower(j.rec.type))
         /\ ~Contains(s_decision, Lower(j.rec.type))
         /\ ExtensionsReadable(j.rec))
        => j.handler = "telemetry"

\* a tag in upper case with characters after it was routed to telemetry
C6_Witness ==
    \E p \in Consumers :
        /\ job[p].rec.hasType
        /\ job[p].rec.type = s_TELEMETRY \o s_v1
        /\ job[p].handler = "telemetry"
        /\ job[p].keyed

-----------------------------------------------------------------------------
(* C7 *)

\* the kind C7 gives a tag, every comparison made case-insensitively
KindIgnoringCase(tag) ==
    IF Lower(tag) = Lower(HistoricDeliveryIngested) THEN "historic"
    ELSE IF Contains(s_expert, Lower(tag)) \/ Contains(s_decision, Lower(tag))
    THEN "decision"
    ELSE IF Contains(s_telemetry, Lower(tag)) THEN "telemetry"
    ELSE "none"

\* the same with the historic tag compared exactly
KindExactHistoric(tag) ==
    IF tag = HistoricDeliveryIngested THEN "historic"
    ELSE IF Contains(s_expert, Lower(tag)) \/ Contains(s_decision, Lower(tag))
    THEN "decision"
    ELSE IF Contains(s_telemetry, Lower(tag)) THEN "telemetry"
    ELSE "none"

\* C7 as stated: every CloudEvent is handled according to its type tag read
\* case-insensitively, historic tag first, then the decision substrings, then
\* the telemetry substring; an unrecognized tag has no existence check, no
\* annotation call and no insert.
C7_RoutedIgnoringCase ==
    \A p \in Consumers :
        LET j == job[p] IN
        (j.end # "none" /\ j.rec.isObject /\ j.rec.hasType /\ j.rec.typeIsStr)
        => (/\ j.handler = KindIgnoringCase(j.rec.type)
            /\ (KindIgnoringCase(j.rec.type) = "none"
                   => ~j.checked /\ j.annCalls = 0 /\ j.inserts = 0))

\* C7 amended: a CloudEvent with a readable extensions block is handled
\* according to its type tag, first match winning: the historic tag compared
\* exactly (case-sensitively), then the decision substrings and then the
\* telemetry substring, both case-insensitively; an unrecognized tag has no
\* existence check, no annotation call and no insert.
C7_RoutedExactHistoric ==
    \A p \in Consumers :
        LET j == job[p] IN
        (/\ j.end # "none" /\ j.rec.isObject /\ j.rec.hasType /\ j.rec.typeIsStr
         /\ ExtensionsReadable(j.rec))
        => (/\ j.handler = KindExactHistoric(j.rec.type)
            /\ (KindExactHistoric(j.rec.type) = "none"
                   => /\ j.end = "unknown_type"
                      /\ ~j.checked /\ j.annCalls = 0 /\ j.inserts = 0))

\* the historic tag in lower case was dropped as unrecognized, and a tag with
\* both a telemetry and a decision substring went to the decision handler
C7_Witness ==
    \E p \in Consumers :
        /\ job[p].rec.hasType
        /\ \/ /\ job[p].rec.type = Lower(HistoricDeliveryIngested)
              /\ job[p].end = "unknown_type"
           \/ /\ job[p].rec.type = s_Telemetry \o s_DECISION
              /\ job[p].handler = "decision"

-----------------------------------------------------------------------------
(* C8 *)

\* C8: for a well-formed record of any of the three kinds, with both
\* capabilities configured, no row for its key and no failure of a
\* collaborator, whose annotation answers nothing but a JSON object without
\* the optional keys: the enrichment has no tag, confidence 0 and an empty
\* reasoning, and it is stored.
C8_DefaultsStored ==
    \A p \in Consumers :
        LET j == job[p] IN
        (/\ Capable /\ Done(j) /\ j.faults = {} /\ ~j.found
         /\ (IsDecisionRecord(j.rec) \/ IsTelemetryRecord(j.rec)
                \/ IsHistoricRecord(j.rec))
         /\ j.response \in {NoResponse, Response("object", <<>>, {})})
        => (/\ j.annCalls = 1
            /\ j.enrichment.ai_tags = <<>>
            /\ j.enrichment.ai_confidence_score = 0
            /\ j.enrichment.ai_reasoning = <<>>
            /\ j.stored = "stored")

-----------------------------------------------------------------------------
(* C9 *)

\* C9: when the annotation's answer is not JSON, the processing ends in the
\* handler's own error branch (no exception leaves the handler), with one
\* annotation call, no insert attempted and nothing stored, and the consumer
\* loop is ready for the next record unless it was stopped.
C9_UnparseableFails ==
    \A p \in Consumers :
        LET j == job[p] IN
        (j.response.kind = "text")
        => (/\ j.end = "error"
            /\ j.annCalls = 1
            /\ j.inserts = 0
            /\ j.stored = "none"
            /\ (~stopRequested[p] => pc[p] = "ready"))

\* a telemetry record whose annotation answered text that is no JSON
C9_Witness ==
    \E p \in Consumers :
        /\ job[p].response.kind = "text"
        /\ job[p].handler = "telemetry"
        /\ job[p].end = "error"
        /\ pc[p] = "ready"
        /\ pulled[p] < MaxRecords

-----------------------------------------------------------------------------
(* C10 *)

\* C10: no record ends the consumer loop: the loop ends only when a stop was
\* requested.
C10_LoopEndsOnlyOnStop ==
    \A p \in Consumers : pc[p] = "ended" => stopRequested[p]

-----------------------------------------------------------------------------
(* C11 *)

\* C11: once the stop was requested, the record that was in flight has run to
\* a terminal state (duplicate skip, enriched or error): it is never left
\* where it was suspended, between its annotation call and its insert.
C11_InFlightFinishes ==
    \A p \in Consumers :
        stopRequested[p] => job[p].end \notin {"running", "cancelled"}

-----------------------------------------------------------------------------
(* C12 *)

\* C12: an insert rejected by the unique constraint on EventId, because another
\* instance stored the key after this instance's existence check, ends the
\* processing as a duplicate skip, and is not logged as an error.
C12_UniqueViolationIsDuplicate ==
    \A p \in Consumers :
        job[p].stored = "unique_violation"
        => (/\ job[p].end = "skip_duplicate"
            /\ store_enrichment_log(job[p].stored) # "error")

-----------------------------------------------------------------------------
(* C13 *)

\* the aliased fields of a decision event: <<current name, deprecated name>>
AliasPairs ==
    {<<"selected_truck_id", "expert_assigned_truck_id">>,
     <<"suggested_truck_id", "ai_suggested_truck_id">>,
     <<"expert_note", "expert_notes">>,
     <<"order_id", "conduce_id">>}
\* the pairs of which one name must be there
RequiredPairs ==
    {<<"selected_truck_id", "expert_assigned_truck_id">>, <<"order_id", "conduce_id">>}

\* the field is in the payload and not empty
Present(f, a) == a \in DOMAIN f /\ f[a] # <<>>

\* the resolution rule: the current name when present, else the deprecated one
Resolved(f, pair) == IF Present(f, pair[1]) THEN f[pair[1]] ELSE f[pair[2]]

\* C13: a decision event with its unaliased required fields is accepted (its
\* key is read) when each required pair has one of its names, and the event
\* then carries under every current name the resolved value; when a required
\* pair has neither name, it is rejected with no annotation call and no insert.
C13_AliasesResolved ==
    \A p \in Consumers :
        LET j == job[p]
            f == j.rec.data.fields
        IN  (/\ j.handler = "decision" /\ Done(j) /\ j.rec.data.isObject
             /\ {"feedback_id", "primary_reason", "decision_time_seconds",
                 "recorded_at_utc"} \subseteq DOMAIN f)
            => IF \A pair \in RequiredPairs :
                      Present(f, pair[1]) \/ Present(f, pair[2])
               THEN /\ j.keyed
                    /\ j.key = f.feedback_id
                    /\ \A pair \in AliasPairs :
                          (Present(f, pair[1]) \/ Present(f, pair[2]))
                          => (/\ HasAttr(j.m, pair[1])
                              /\ j.m[pair[1]] = Resolved(f, pair))
               ELSE /\ j.end = "error"
                    /\ j.annCalls = 0
                    /\ j.inserts = 0

-----------------------------------------------------------------------------
(* C14 *)

\* C14: without the annotation capability, the processing of a well-formed
\* record of any of the three kinds makes no annotation call and no insert,
\* leaves the table empty and ends after its existence check in the branch
\* that logs the missing capability, not in an error branch.
C14_NotConfiguredSkips ==
    \A p \in Consumers :
        LET j == job[p] IN
        (/\ ~gemini_model /\ Done(j)
         /\ (IsDecisionRecord(j.rec) \/ IsTelemetryRecord(j.rec)
                \/ IsHistoricRecord(j.rec)))
        => (/\ j.annCalls = 0
            /\ j.inserts = 0
            /\ AIEnrichments = <<>>
            /\ j.checked
            /\ j.end = "ai_skipped")

-----------------------------------------------------------------------------
(* C15 *)

\* C15: the manual trigger, given a body with the fields of a decision event,
\* answers 503 without existence check, annotation call or insert when the
\* annotation capability is not configured; otherwise it answers only after
\* process_expert_decision has run to its end, with status 200 and the
\* event's feedback_id as the key it resolved.
C15_ManualTriggerAnswers ==
    LET j == job[Api]
        f == j.rec.data.fields
    IN  (/\ j.end # "none" /\ j.rec.data.isObject
         /\ "feedback_id" \in DOMAIN f)
        => IF ~gemini_model
           THEN /\ j.http = 503
                /\ ~j.checked /\ j.annCalls = 0 /\ j.inserts = 0
           ELSE /\ (j.http # 0 <=> Done(j))
                /\ (Done(j) => (j.http = 200 /\ j.keyed /\ j.key = f.feedback_id))

-----------------------------------------------------------------------------
(* C16 *)

\* C16: when the insert fails, for whatever reason, no exception reaches the
\* loop (it is ready for the next record unless stopped) and the processing
\* ends as an error: an event whose insert was attempted is reported as
\* enriched exactly when its row was inserted.
C16_EnrichedOnlyIfInserted ==
    \A p \in Consumers :
        LET j == job[p] IN
        (Done(j) /\ j.inserts > 0)
        => (/\ (~stopRequested[p] => pc[p] = "ready")
            /\ (j.end = "enriched" <=> j.stored = "stored")
            /\ (j.stored # "stored" => j.end = "error"))

-----------------------------------------------------------------------------
(* C17 *)

\* C17: a consumer loop has at most one record in flight: it is suspended in
\* a handler exactly while its record is unfinished, and it pulls the next
\* record, one at a time, only when the existence check, the annotation and
\* the insert of the record before have completed or failed.
C17_OneRecordInFlight ==
    /\ [](\A p \in Consumers :
            pc[p] \in {"annotate", "store"} <=> job[p].end = "running")
    /\ [][\A p \in Consumers :
            pulled'[p] # pulled[p]
            => (/\ pulled'[p] = pulled[p] + 1
                /\ pc[p] = "ready"
                /\ job[p].end # "running"
                /\ (pulled[p] > 0 => Done(job[p])))]_vars

\* the second record was pulled after the first had been annotated and
\* inserted: it found the first one's row
C17_Witness ==
    /\ pulled["c1"] = 2
    /\ job["c1"].repeat /\ job["c1"].found
    /\ Len(AIEnrichments) = 1

-----------------------------------------------------------------------------
(* C18 *)

\* the attributes the key of an event is made of
KeyAttributes(handler) ==
    IF handler = "decision" THEN {"feedback_id"}
    ELSE IF handler = "telemetry" THEN {"event_id"}
    ELSE {"ingestion_batch_id", "truck_license_plate", "delivery_date"}

\* C18: an event handed to one of the three handlers whose payload lacks an
\* attribute its key is made of ends in the handler's error branch before any
\* existence check: no key, no lookup, no annotation call, no insert.
C18_NoKeyNoLookup ==
    \A p \in Consumers :
        LET j == job[p] IN
        (/\ j.handler \in {"decision", "telemetry", "historic"}
         /\ ~(KeyAttributes(j.handler) \subseteq DOMAIN j.rec.data.fields))
        => (/\ j.end = "error"
            /\ ~j.keyed /\ ~j.checked
            /\ j.annCalls = 0 /\ j.inserts = 0 /\ j.stored = "none")

\* a telemetry record without event_id was dropped, the loop goes on
C18_Witness ==
    \E p \in Consumers :
        /\ job[p].rec = Legacy("heuristic.telemetry.v1", TelemetryNoId)
        /\ job[p].handler = "telemetry"
        /\ job[p].end = "error"
        /\ pc[p] = "ready"

-----------------------------------------------------------------------------
(* C19 *)

\* the value is there (not None)
NotNone(m, a) == HasAttr(m, a) /\ m[a] # <<>>

\* the synthesized tags C19 lists, in its order
SynthesizedTags(delivery) ==
    << <<"PRODUCT:">> \o delivery.raw_description >>
    \o (IF NotNone(delivery, "quantity") /\ NotNone(delivery, "raw_unit")
        THEN << <<"UNIT:">> \o delivery.raw_unit >> ELSE <<>>)
    \o (IF NotNone(delivery, "taxonomy_id")
        THEN << <<"TAXONOMY:">> \o (IF NotNone(delivery, "is_taxonomy_verified")
                                    THEN <<"VERIFIED">> ELSE <<"PENDING">>) >>
        ELSE <<>>)

-----------------------------------------------------------------------------
(* C20 *)

\* the handler of a topic
TopicKind(topic) ==
    IF topic = "expert.decisions.v1" THEN "decision"
    ELSE IF topic = "heuristic.telemetry.v1" THEN "telemetry"
    ELSE IF topic = "historic.deliveries.v1" THEN "historic"
    ELSE "none"

\* C20: a record without type tag is handled by the handler of its topic; on
\* any other topic it is skipped with no existence check, no annotation call
\* and no insert, and the loop is ready for the next record unless stopped.
C20_DispatchedByTopic ==
    \A p \in Consumers :
        LET j == job[p] IN
        (j.end # "none" /\ j.rec.isObject /\ ~j.rec.hasType)
        => (/\ j.handler = TopicKind(j.rec.topic)
            /\ (TopicKind(j.rec.topic) = "none"
                   => (/\ j.end = "unknown_topic"
                       /\ ~j.checked /\ j.annCalls = 0 /\ j.inserts = 0
                       /\ (~stopRequested[p] => pc[p] = "ready"))))

\* a well-formed telemetry payload on a topic that is not mapped was skipped
\* and the loop can pull again
C20_Witness ==
    \E p \in Consumers :
        /\ job[p].rec = Legacy("orders.v1", TelemetryData(F2))
        /\ job[p].end = "unknown_topic"
        /\ pc[p] = "ready"
        /\ pulled[p] < MaxRecords

-----------------------------------------------------------------------------
(* C21 *)

\* both keys were computed
BothKeyed == job["c1"].keyed /\ job["c2"].keyed

\* no component of the delivery contains the separator
SeparatorFree(m) ==
    \A a \in {"ingestion_batch_id", "truck_license_plate", "delivery_date"} :
        ~Contains(<<"_">>, m[a])

-----------------------------------------------------------------------------
(* C22 *)

\* the kind of event a row was produced from, by the EventType its handler
\* writes (l.379, l.443, l.609)
RowKind(row) ==
    IF row.EventType = s_expert_decision THEN "decision"
    ELSE IF row.EventType = <<"historic_delivery_unit_aware">> THEN "historic"
    ELSE "telemetry"

-----------------------------------------------------------------------------
(* C23 *)

\* C23: an event redelivered after a processing that failed in the annotation
\* call, in its answer or in the insert (not on the constraint) is not taken
\* as a duplicate when its lookup works: it passes the existence check, the
\* annotation is called again and, when nothing fails this time, its row is
\* stored.
C23_RedeliveryRetried ==
    \A p \in Consumers :
        LET j == job[p] IN
        (j.redelivery /\ "lookup" \notin j.faults)
        => (/\ j.checked /\ ~j.found /\ j.end # "skip_duplicate"
            /\ (pc[p] = "annotate" \/ j.annCalls = 1 \/ j.end = "cancelled")
            /\ (Done(j) /\ j.faults = {} /\ AsyncSessionLocal
                    => (j.stored = "stored" /\ Count(j.key) = 1)))

\* a telemetry event whose first processing failed was redelivered, annotated
\* again and stored
C23_Witness ==
    \E p \in Consumers :
        /\ job[p].redelivery
        /\ job[p].annCalls = 1
        /\ job[p].stored = "stored"
        /\ Count(job[p].key) = 1

-----------------------------------------------------------------------------
(* C24 *)

\* C24: when the store is not configured or the lookup raises, the existence
\* check answers false and raises nothing: the event is not skipped and, with
\* the annotation configured, goes on to the annotation call, also when a
\* row with its key is in the table.
C24_CheckFailsOpen ==
    \A p \in Consumers :
        LET j == job[p] IN
        (j.checked /\ (~AsyncSessionLocal \/ "lookup" \in j.faults))
        => (/\ ~j.found
            /\ j.end \notin {"skip_duplicate", "loop_error", "fatal"}
            /\ (gemini_model /\ j.handler = "telemetry"
                    => (pc[p] = "annotate" \/ j.annCalls = 1 \/ j.end = "cancelled")))

\* the lookup of an event whose row is in the table raised: the annotation
\* was called again and the insert was rejected by the constraint
C24_Witness ==
    \E p \in Consumers :
        /\ "lookup" \in job[p].faults
        /\ job[p].annCalls = 1
        /\ job[p].stored = "unique_violation"
        /\ Count(job[p].key) = 1

-----------------------------------------------------------------------------
(* C25 *)

\* a CloudEvent with the historic tag, a readable extensions block and a
\* payload with every attribute of a historic delivery
IsHistoricCloudEvent(r) ==
    /\ r.isObject /\ r.hasType /\ r.typeIsStr
    /\ r.type = HistoricDeliveryIngested
    /\ ExtensionsReadable(r)
    /\ r.data.isObject
    /\ DOMAIN Historic1.fields \subseteq DOMAIN r.data.fields

\* extensions.is_historic is "true", in any case
BatchMode(r) == r.ext.has /\ Lower(r.ext.val) = s_true

\* C25: a CloudEvent with the historic tag is annotated or stored only when
\* its is_historic extension is "true" in any case; otherwise its processing
\* ends after the existence check with no annotation call and no insert.  A
\* historic payload on the historic channel is always handled in batch mode.
C25_HistoricOnlyInBatchMode ==
    \A p \in Consumers :
        LET j == job[p] IN
        /\ (IsHistoricCloudEvent(j.rec) /\ Done(j))
           => (/\ j.handler = "historic"
               /\ j.is_historic = BatchMode(j.rec)
               /\ (j.annCalls > 0 \/ j.inserts > 0 => BatchMode(j.rec))
               /\ (~BatchMode(j.rec)
                     => (/\ j.checked
                         /\ j.end \in {"ai_skipped", "skip_duplicate"}
                         /\ j.annCalls = 0 /\ j.inserts = 0)))
        /\ (IsHistoricRecord(j.rec) /\ Done(j))
           => (j.handler = "historic" /\ j.is_historic)

====
